---- MODULE Spec2Model ----
(***************************************************************************)
(* Model of the v3 headless scanner (src/main.py): the indicator library,  *)
(* the regime classifier, the two signal detectors, the consensus gate,    *)
(* the risk sizer, decide_trade, log_row and the main() scan loop.         *)
(*                                                                         *)
(* Numbers.  Prices, distances and dollar amounts are fixed-point          *)
(* integers counted in units of 0.00001 (Scale units = 1.0), one decimal   *)
(* finer than the 4-decimal rounding of the record fields, so round(x, 4)  *)
(* and round(x, 2) are real conversions here.  A float NaN is the          *)
(* distinguished value NaN; every comparison with it is false, as in IEEE. *)
(***************************************************************************)
EXTENDS Integers, Sequences, FiniteSets, TLC

VARIABLES
    cfg,         \* the process configuration (lines 8-13), read once
    fileExists,  \* os.path.exists(CSV_LOG)
    csv,         \* the lines of CSV_LOG, in file order
    runs,        \* invocations of main() so far; also the clock of the records
    pc,          \* main(): "idle" | "loop" | "done"
    inWindow,    \* what market_hours_now() returned in this invocation
    i,           \* index in TICKERS of the instrument of the for loop
    stage,       \* position of the current instrument inside decide_trade/main
    hits,        \* main()'s local counter
    dfi,         \* decide_trade's local: the 5-minute frame
    rg,          \* what regime_ok(dfi) returned
    f,           \* what sig_flow(dfi) returned
    b,           \* what sig_boyh(ticker, dfi) returned
    daily,       \* what the daily supplier gave sig_boyh
    entry,       \* decide_trade's local
    sd,          \* decide_trade's local: the unrounded stop distance
    sh,          \* decide_trade's local
    row,         \* the dict decide_trade returned
    trail,       \* stages the current instrument went through, in order
    dailyCalls,  \* calls of the daily supplier for the current instrument
    appended,    \* rows appended to the log for the current instrument
    evaluated,   \* tickers decide_trade was called for in this invocation
    errs,        \* tickers printed by the except branch in this invocation
    lost,        \* an accepted decision's log_row failed in this invocation
    totalHits    \* sum of hits over all invocations

vars == <<cfg, fileExists, csv, runs, pc, inWindow, i, stage, hits, dfi, rg, f, b,
          daily, entry, sd, sh, row, trail, dailyCalls, appended, evaluated,
          errs, lost, totalHits>>

(***************************************************************************)
(* Bounds of the model.                                                    *)
(***************************************************************************)
NumTickers == 2
MaxRuns == 2

(***************************************************************************)
(* Fixed-point arithmetic.                                                 *)
(***************************************************************************)
Scale == 10 * 10000

NaN == 0 - 2000000000

IsNaN(x) == x = NaN

Max2(x, y) == IF x >= y THEN x ELSE y

Abs(x) == IF x < 0 THEN 0 - x ELSE x

\* Python's round(x, ndigits) on a value of the grid: to the nearest multiple
\* of m grid units, a tie going to the even multiple.
RoundTo(x, m) ==
    LET q == x \div m
        r == x % m
    IN  IF 2 * r < m THEN q * m
        ELSE IF 2 * r > m THEN (q + 1) * m
        ELSE IF q % 2 = 0 THEN q * m ELSE (q + 1) * m

Round4(x) == RoundTo(x, Scale \div 10000)

Round2(x) == RoundTo(x, Scale \div 100)

BoolInt(x) == IF x THEN 1 ELSE 0

(***************************************************************************)
(* CONFIG (lines 8-13).  EQUITY is on the grid; RISK_PER_TRADE is counted  *)
(* in hundredths (1 = 0.01), ATR_MULT and VOL_MULT in tenths (15 = 1.5).   *)
(***************************************************************************)
AllTickers == <<"SPY", "QQQ", "AAPL", "NVDA", "AMZN", "C", "JPM", "BTC-USD",
                "ETH-USD", "PLTR", "SOFI", "AMC", "XLE", "GLD">>

TICKERS == SubSeq(AllTickers, 1, NumTickers)

DefaultConfig ==
    [TICKERS |-> TICKERS, EQUITY |-> 10000 * Scale, RISK_PER_TRADE |-> 1,
     ATR_MULT |-> 15, VOL_MULT |-> 30, CONSENSUS_MIN |-> 2]

\* EQUITY * RISK_PER_TRADE, the dollar risk budget of one trade.
Budget(c) == (c.EQUITY \div 100) * c.RISK_PER_TRADE

(***************************************************************************)
(* Frames.  A frame is [cols, rows]: the set of its column names and the   *)
(* sequence of its bars [High, Low, Close, Volume].                        *)
(***************************************************************************)
OHLCV == {"High", "Low", "Close", "Volume"}

EmptyFrame == [cols |-> OHLCV, rows |-> <<>>]

Last(s) == s[Len(s)]

\* s[lo] + ... + s[hi], split in halves to keep the evaluation shallow.
RECURSIVE SeqSum(_, _, _)
SeqSum(s, lo, hi) ==
    IF hi < lo THEN 0
    ELSE IF hi = lo THEN s[lo]
    ELSE LET mid == (lo + hi) \div 2
         IN  SeqSum(s, lo, mid) + SeqSum(s, mid + 1, hi)

\* IEEE comparisons: false as soon as one side is NaN.
Gt(x, y) == ~IsNaN(x) /\ ~IsNaN(y) /\ x > y

Le(x, y) == ~IsNaN(x) /\ ~IsNaN(y) /\ x <= y

(***************************************************************************)
(* Indicator library (lines 32-42).                                        *)
(***************************************************************************)
EmaSpan == 200
AtrWindow == 14
VolWindow == 20
RegimeMinBars == 200
FlowMinBars == 21
DailyMinBars == 2

\* One step of the recursive update with alpha = 2/(n+1):
\* alpha * x + (1 - alpha) * e, rounded to the grid.
EwmStep(e, x, n) == (2 * x + (n - 1) * e) \div (n + 1)

\* s.ewm(span=n, adjust=False).mean() at index k: started at the first
\* observation, no seeding window, the update applied to s[2..k] in order.
\* Fold[<<e, lo, hi>>] is the value after s[lo..hi] when e was the value
\* before; the range is split in halves to keep the evaluation shallow.
ema(s, n, k) ==
    LET Fold[a \in Int \X Int \X Int] ==
            LET e == a[1]
                lo == a[2]
                hi == a[3]
                mid == (lo + hi) \div 2
            IN  IF hi < lo THEN e
                ELSE IF hi = lo THEN EwmStep(e, s[lo], n)
                ELSE Fold[<<Fold[<<e, lo, mid>>], mid + 1, hi>>]
    IN  Fold[<<s[1], 2, k>>]

\* The true range of bar k; the first bar has no previous close, and the
\* row-wise max skips the missing terms.
TrueRange(rows, k) ==
    LET h == rows[k].High
        l == rows[k].Low
    IN  IF k = 1 THEN h - l
        ELSE LET c == rows[k - 1].Close
             IN  Max2(h - l, Max2(Abs(h - c), Abs(l - c)))

\* atr(df, n) at index k: rolling(n).mean() of the true range, NaN while the
\* window is not full.
atr(rows, n, k) ==
    IF k < n THEN NaN
    ELSE LET tr == [j \in 1..k |-> TrueRange(rows, j)]
         IN  SeqSum(tr, k - n + 1, k) \div n

\* vwap(df) at index k: cumulative close*volume over cumulative volume, NaN
\* where the cumulative volume is 0.
vwap(rows, k) ==
    LET pv == SeqSum([j \in 1..k |-> rows[j].Close * rows[j].Volume], 1, k)
        vv == SeqSum([j \in 1..k |-> rows[j].Volume], 1, k)
    IN  IF vv = 0 THEN NaN ELSE pv \div vv

(***************************************************************************)
(* A) Regime (lines 45-55).                                                *)
(***************************************************************************)
\* atr_band_ok with the upper end of the band left out.
atr_band_ok_half_open(a, last) ==
    /\ ~IsNaN(a)
    /\ last > 0
    /\ 5 * last <= 1000 * a
    /\ 1000 * a < 80 * last

\* 0.005 <= a / max(1e-9, last) <= 0.08.  On the grid a close of at most 0
\* makes the quotient either 0 or at least 10000, outside the band.
atr_band_ok(a, last) ==
    /\ ~IsNaN(a)
    /\ last > 0
    /\ 5 * last <= 1000 * a
    /\ 1000 * a <= 80 * last

regime_ok(df) ==
    IF Len(df.rows) = 0 \/ Len(df.rows) < RegimeMinBars THEN FALSE
    ELSE LET n == Len(df.rows)
             close == [k \in 1..n |-> df.rows[k].Close]
             last == close[n]
             ema200_ok == last > ema(close, EmaSpan, n)
             a == atr(df.rows, AtrWindow, n)
         IN  ema200_ok /\ atr_band_ok(a, last)

(***************************************************************************)
(* B) Signals (lines 58-67).                                               *)
(***************************************************************************)
\* vol.iloc[-1] >= VOL_MULT * vol.rolling(20).mean().iloc[-1], multiplied out
\* by the window and by the tenths of VOL_MULT.
vol_surge(rows, c) ==
    LET n == Len(rows)
        vol == [k \in 1..n |-> rows[k].Volume]
    IN  10 * VolWindow * vol[n] >= c.VOL_MULT * SeqSum(vol, n - VolWindow + 1, n)

\* sig_flow testing "not (close <= vwap)", which a NaN passes.
sig_flow_not_below(df, c) ==
    IF Len(df.rows) < FlowMinBars THEN FALSE
    ELSE /\ vol_surge(df.rows, c)
         /\ ~Le(Last(df.rows).Close, vwap(df.rows, Len(df.rows)))

sig_flow(df, c) ==
    IF Len(df.rows) < FlowMinBars THEN FALSE
    ELSE /\ vol_surge(df.rows, c)
         /\ Gt(Last(df.rows).Close, vwap(df.rows, Len(df.rows)))

\* What the daily supplier can give: nothing (None) or a frame of daily highs.
NoDaily == [kind |-> "none", highs |-> <<>>]

DailyFrame(hs) == [kind |-> "frame", highs |-> hs]

sig_boyh(d, df) ==
    IF d.kind = "none" \/ Len(d.highs) = 0 \/ Len(d.highs) < DailyMinBars THEN FALSE
    ELSE LET yh == d.highs[Len(d.highs) - 1]
         IN  Gt(Last(df.rows).Close, yh)

(***************************************************************************)
(* C) Risk (lines 70-75).                                                  *)
(***************************************************************************)
stop_distance(df, c) ==
    LET a == atr(df.rows, AtrWindow, Len(df.rows))
    IN  IF IsNaN(a) THEN NaN ELSE (a * c.ATR_MULT) \div 10

\* The minimum price increment 0.01 of max(0.01, stop_dist).
MinIncrement == Scale \div 100

\* Python's max(0.01, x): x only when x > 0.01, so 0.01 for a NaN.
FloatMax(m, x) == IF Gt(x, m) THEN x ELSE m

\* shares_for without the guard of line 74.
shares_for_unguarded(entry_, stop_dist, c) ==
    Budget(c) \div FloatMax(MinIncrement, stop_dist)

\* shares_for rounding the quotient up instead of down.
shares_for_rounding_up(entry_, stop_dist, c) ==
    IF Le(stop_dist, 0) \/ IsNaN(stop_dist) THEN 0
    ELSE LET m == FloatMax(MinIncrement, stop_dist)
         IN  (Budget(c) + m - 1) \div m

shares_for(entry_, stop_dist, c) ==
    IF Le(stop_dist, 0) \/ IsNaN(stop_dist) THEN 0
    ELSE Budget(c) \div FloatMax(MinIncrement, stop_dist)

(***************************************************************************)
(* The decision record (lines 94-104) and the lines of CSV_LOG.            *)
(* timestamp and date are read from the clock of the invocation.           *)
(***************************************************************************)
NoRow ==
    [timestamp |-> 0, date |-> 0, ticker |-> "", signals |-> [flow |-> 0, boyh |-> 0],
     entry |-> 0, stop |-> 0, stop_dist |-> 0, shares |-> 0, risk |-> 0]

DecisionRow(t, clock, f_, b_, entry_, sd_, sh_, c) ==
    [timestamp |-> clock, date |-> clock, ticker |-> t,
     signals |-> [flow |-> BoolInt(f_), boyh |-> BoolInt(b_)],
     entry |-> Round4(entry_), stop |-> Round4(entry_ - sd_),
     stop_dist |-> Round4(sd_), shares |-> sh_, risk |-> Round2(Budget(c))]

HeaderLine == [kind |-> "header", rec |-> NoRow]

RowLine(r) == [kind |-> "row", rec |-> r]

(***************************************************************************)
(* What the suppliers may return.  A scenario is a frame of n bars, all    *)
(* with the same high and low; the first n-1 close at cb with volume vb,   *)
(* the latest closes at cl with volume vl.                                 *)
(***************************************************************************)
Scn(n, lo, hi, cb, cl, vb, vl, cols) ==
    [n |-> n, lo |-> lo, hi |-> hi, cb |-> cb, cl |-> cl, vb |-> vb, vl |-> vl,
     cols |-> cols]

Frame(s) ==
    [cols |-> s.cols,
     rows |-> [k \in 1..s.n |->
                 [High |-> s.hi, Low |-> s.lo,
                  Close |-> IF k < s.n THEN s.cb ELSE s.cl,
                  Volume |-> IF k < s.n THEN s.vb ELSE s.vl]]]

\* Closes 0.9999 then 1.0, the bars' range given: ATR(14) is the range.
Edge(n, range, vb, vl) ==
    Scn(n, 99900, 99900 + range, 99990, 100000, vb, vl, OHLCV)

ScnEmpty == Scn(0, 0, 0, 0, 0, 0, 0, OHLCV)
ScnShort == Edge(RegimeMinBars - 1, 2000, 1, 100)
ScnPass == Edge(RegimeMinBars, 2000, 1, 100)
ScnZeroVolume == Edge(RegimeMinBars, 2000, 0, 0)
ScnNoVolumeColumn ==
    Scn(RegimeMinBars, 99900, 101900, 99990, 100000, 1, 100, OHLCV \ {"Volume"})

MainScenarios == {ScnEmpty, ScnShort, ScnPass, ScnZeroVolume, ScnNoVolumeColumn}

AllScenarios ==
    MainScenarios \cup
    {Edge(RegimeMinBars, 500, 1, 100),      \* ATR/close = 0.005
     Edge(RegimeMinBars, 499, 1, 100),      \* just below 0.005
     Edge(RegimeMinBars, 8000, 1, 100),     \* ATR/close = 0.08
     Edge(RegimeMinBars, 8001, 1, 100),     \* just above 0.08
     Edge(RegimeMinBars + 1, 2000, 1, 100),
     Edge(RegimeMinBars, 2000, 1, 1),       \* no volume surge
     Edge(FlowMinBars - 1, 2000, 1, 100),
     Edge(AtrWindow - 1, 2000, 1, 100),
     Scn(RegimeMinBars, 100000, 100000, 100000, 100000, 5, 5, OHLCV),   \* constant
     Scn(RegimeMinBars, 99000, 101000, 100000, 100000, 1, 100, OHLCV),  \* close = EMA
     Scn(RegimeMinBars, 99000, 101000, 100000, 99990, 1, 100, OHLCV),   \* close < EMA
     Scn(RegimeMinBars, 389, 391, 390, 391, 1, 100, OHLCV)}             \* a 0.0039 asset

MainDaily ==
    {NoDaily, DailyFrame(<<>>), DailyFrame(<<99000>>),
     DailyFrame(<<99000, 120000>>), DailyFrame(<<120000, 99000>>)}

AllDaily == MainDaily \cup {DailyFrame(<<90000, 100000, 99000>>)}

FailedDaily == [kind |-> "error", highs |-> <<>>]

(***************************************************************************)
(* decide_trade (lines 84-104) inside main()'s loop (lines 111-118), one   *)
(* action per stage of the instrument.                                     *)
(***************************************************************************)
Terminal == {"NoDecision", "Emitted", "Skipped"}

Locals == <<dfi, rg, f, b, daily, entry, sd, sh, row, dailyCalls, appended>>

Store == <<fileExists, csv, totalHits>>

Loop == <<cfg, runs, pc, inWindow, i, evaluated>>

GoTo(st) ==
    /\ stage' = st
    /\ trail' = Append(trail, st)

\* The except branch of the loop (lines 117-118): print, go on with the next.
ExceptBranch ==
    /\ GoTo("Skipped")
    /\ errs' = Append(errs, cfg.TICKERS[i])

\* The for loop binds the next ticker and calls decide_trade.
BeginTicker(k, ev) ==
    /\ i' = k
    /\ stage' = "Fetching"
    /\ trail' = <<"Fetching">>
    /\ evaluated' = Append(ev, cfg.TICKERS[k])
    /\ dfi' = EmptyFrame /\ rg' = FALSE /\ f' = FALSE /\ b' = FALSE
    /\ daily' = NoDaily /\ entry' = 0 /\ sd' = 0 /\ sh' = 0 /\ row' = NoRow
    /\ dailyCalls' = 0 /\ appended' = 0

EndLoop ==
    /\ pc' = "done"
    /\ stage' = "None"
    /\ trail' = <<>>
    /\ dfi' = EmptyFrame /\ rg' = FALSE /\ f' = FALSE /\ b' = FALSE
    /\ daily' = NoDaily /\ entry' = 0 /\ sd' = 0 /\ sh' = 0 /\ row' = NoRow
    /\ dailyCalls' = 0 /\ appended' = 0

\* main() inside the scan window (lines 107-111).
StartRun ==
    /\ pc \in {"idle", "done"}
    /\ runs < MaxRuns
    /\ runs' = runs + 1
    /\ inWindow' = TRUE
    /\ hits' = 0 /\ errs' = <<>> /\ lost' = FALSE
    /\ IF Len(cfg.TICKERS) = 0
       THEN EndLoop /\ evaluated' = <<>> /\ i' = 1
       ELSE pc' = "loop" /\ BeginTicker(1, <<>>)
    /\ UNCHANGED <<cfg, Store>>

\* main() outside the scan window (lines 107-109).
SkipRun ==
    /\ pc \in {"idle", "done"}
    /\ runs < MaxRuns
    /\ runs' = runs + 1
    /\ inWindow' = FALSE
    /\ hits' = 0 /\ errs' = <<>> /\ lost' = FALSE
    /\ EndLoop /\ evaluated' = <<>> /\ i' = 1
    /\ UNCHANGED <<cfg, Store>>

\* fetch_5m returned a frame (line 85); an empty one ends the instrument (line 86).
FetchOK(S) ==
    /\ pc = "loop" /\ stage = "Fetching"
    /\ \E s \in S :
         /\ dfi' = Frame(s)
         /\ GoTo(IF s.n = 0 THEN "NoDecision" ELSE "RegimeCheck")
    /\ UNCHANGED <<Loop, Store, hits, errs, lost, rg, f, b, daily, entry, sd, sh, row,
                   dailyCalls, appended>>

\* fetch_5m raised (line 85).
FetchRaises ==
    /\ pc = "loop" /\ stage = "Fetching"
    /\ ExceptBranch
    /\ UNCHANGED <<Loop, Store, hits, lost, Locals>>

\* RegimeCheck without the early return of line 87.
RegimeCheckNoReturn ==
    /\ pc = "loop" /\ stage = "RegimeCheck"
    /\ rg' = regime_ok(dfi)
    /\ GoTo("SignalEval")
    /\ UNCHANGED <<Loop, Store, hits, errs, lost, dfi, f, b, daily, entry, sd, sh, row,
                   dailyCalls, appended>>

\* Line 87.
RegimeCheck ==
    /\ pc = "loop" /\ stage = "RegimeCheck"
    /\ rg' = regime_ok(dfi)
    /\ GoTo(IF rg' THEN "SignalEval" ELSE "NoDecision")
    /\ UNCHANGED <<Loop, Store, hits, errs, lost, dfi, f, b, daily, entry, sd, sh, row,
                   dailyCalls, appended>>

\* Line 88, both detectors returning.
SignalEval(D) ==
    /\ pc = "loop" /\ stage = "SignalEval"
    /\ "Volume" \in dfi.cols
    /\ f' = sig_flow(dfi, cfg)
    /\ \E d \in D :
         /\ daily' = d
         /\ b' = sig_boyh(d, dfi)
    /\ dailyCalls' = dailyCalls + 1
    /\ GoTo("ConsensusCheck")
    /\ UNCHANGED <<Loop, Store, hits, errs, lost, dfi, rg, entry, sd, sh, row, appended>>

\* Line 88 on a frame without a Volume column: df["Volume"] raises in sig_flow.
SigFlowRaises ==
    /\ pc = "loop" /\ stage = "SignalEval"
    /\ "Volume" \notin dfi.cols
    /\ ExceptBranch
    /\ UNCHANGED <<Loop, Store, hits, lost, Locals>>

\* Line 88, the daily download raising inside sig_boyh (line 64).
SigBoyhRaises ==
    /\ pc = "loop" /\ stage = "SignalEval"
    /\ "Volume" \in dfi.cols
    /\ f' = sig_flow(dfi, cfg)
    /\ daily' = FailedDaily
    /\ dailyCalls' = dailyCalls + 1
    /\ ExceptBranch
    /\ UNCHANGED <<Loop, Store, hits, lost, dfi, rg, b, entry, sd, sh, row, appended>>

\* ConsensusCheck asking for more than CONSENSUS_MIN detectors.
ConsensusCheckStrict ==
    /\ pc = "loop" /\ stage = "ConsensusCheck"
    /\ IF BoolInt(f) + BoolInt(b) <= cfg.CONSENSUS_MIN
       THEN GoTo("NoDecision") /\ UNCHANGED <<entry, sd>>
       ELSE /\ entry' = Last(dfi.rows).Close
            /\ sd' = stop_distance(dfi, cfg)
            /\ GoTo("Sizing")
    /\ UNCHANGED <<Loop, Store, hits, errs, lost, dfi, rg, f, b, daily, sh, row,
                   dailyCalls, appended>>

\* Lines 89-91.
ConsensusCheck ==
    /\ pc = "loop" /\ stage = "ConsensusCheck"
    /\ IF BoolInt(f) + BoolInt(b) < cfg.CONSENSUS_MIN
       THEN GoTo("NoDecision") /\ UNCHANGED <<entry, sd>>
       ELSE /\ entry' = Last(dfi.rows).Close
            /\ sd' = stop_distance(dfi, cfg)
            /\ GoTo("Sizing")
    /\ UNCHANGED <<Loop, Store, hits, errs, lost, dfi, rg, f, b, daily, sh, row,
                   dailyCalls, appended>>

\* Lines 92-104.
Sizing ==
    /\ pc = "loop" /\ stage = "Sizing"
    /\ sh' = shares_for(entry, sd, cfg)
    /\ IF sh' <= 0 \/ IsNaN(sd)
       THEN GoTo("NoDecision") /\ row' = NoRow
       ELSE /\ row' = DecisionRow(cfg.TICKERS[i], runs, f, b, entry, sd, sh', cfg)
            /\ GoTo("Emit")
    /\ UNCHANGED <<Loop, Store, hits, errs, lost, dfi, rg, f, b, daily, entry, sd,
                   dailyCalls, appended>>

\* log_row (lines 77-82): the file after a successful call.
log_row(exists, lines, r) ==
    lines \o (IF ~exists THEN <<HeaderLine>> ELSE <<>>) \o <<RowLine(r)>>

\* Lines 114-116, log_row returning.
LogRowOK ==
    /\ pc = "loop" /\ stage = "Emit"
    /\ csv' = log_row(fileExists, csv, row)
    /\ fileExists' = TRUE
    /\ hits' = hits + 1
    /\ totalHits' = totalHits + 1
    /\ appended' = appended + 1
    /\ GoTo("Emitted")
    /\ UNCHANGED <<Loop, errs, lost, dfi, rg, f, b, daily, entry, sd, sh, row, dailyCalls>>

\* Line 115, open() raising (line 79): the file is as it was.
LogRowOpenFails ==
    /\ pc = "loop" /\ stage = "Emit"
    /\ lost' = TRUE
    /\ ExceptBranch
    /\ UNCHANGED <<Loop, Store, hits, Locals>>

\* Line 115, a write raising after open() (lines 80-82): mode "a" has created
\* the file, and nothing of the buffered header and row reached it.
LogRowWriteFails ==
    /\ pc = "loop" /\ stage = "Emit"
    /\ fileExists' = TRUE
    /\ lost' = TRUE
    /\ ExceptBranch
    /\ UNCHANGED <<Loop, csv, totalHits, hits, Locals>>

\* NextTicker with the try/except around the whole loop instead of inside it.
NextTickerAborting ==
    /\ pc = "loop" /\ stage \in Terminal
    /\ IF i < Len(cfg.TICKERS) /\ stage # "Skipped"
       THEN BeginTicker(i + 1, evaluated) /\ UNCHANGED pc
       ELSE EndLoop /\ UNCHANGED <<i, evaluated>>
    /\ UNCHANGED <<cfg, runs, inWindow, Store, hits, errs, lost>>

\* The for loop goes on (line 111), or main() ends (line 119).
NextTicker ==
    /\ pc = "loop" /\ stage \in Terminal
    /\ IF i < Len(cfg.TICKERS)
       THEN BeginTicker(i + 1, evaluated) /\ UNCHANGED pc
       ELSE EndLoop /\ UNCHANGED <<i, evaluated>>
    /\ UNCHANGED <<cfg, runs, inWindow, Store, hits, errs, lost>>

(***************************************************************************)
(* Spec: repeated invocations of main() on the default configuration.      *)
(***************************************************************************)
Init ==
    /\ cfg = DefaultConfig
    /\ fileExists = FALSE /\ csv = <<>> /\ totalHits = 0
    /\ runs = 0 /\ pc = "idle" /\ inWindow = FALSE /\ i = 1
    /\ stage = "None" /\ trail = <<>> /\ hits = 0
    /\ dfi = EmptyFrame /\ rg = FALSE /\ f = FALSE /\ b = FALSE
    /\ daily = NoDaily /\ entry = 0 /\ sd = 0 /\ sh = 0 /\ row = NoRow
    /\ dailyCalls = 0 /\ appended = 0
    /\ evaluated = <<>> /\ errs = <<>> /\ lost = FALSE

Next ==
    \/ StartRun
    \/ SkipRun
    \/ FetchOK(MainScenarios)
    \/ FetchRaises
    \/ RegimeCheck
    \/ SignalEval(MainDaily)
    \/ SigFlowRaises
    \/ SigBoyhRaises
    \/ ConsensusCheck
    \/ Sizing
    \/ LogRowOK
    \/ LogRowOpenFails
    \/ LogRowWriteFails
    \/ NextTicker

Spec == Init /\ [][Next]_vars

(***************************************************************************)
(* SpecDecide: one decide_trade call of one invocation, on a universe of   *)
(* one instrument, for every frame and daily result of the suppliers and   *)
(* for the values CONSENSUS_MIN may be configured to.                      *)
(***************************************************************************)
MaxConsensusMin == 3

DecideConfigs ==
    {[DefaultConfig EXCEPT !.TICKERS = <<AllTickers[1]>>, !.CONSENSUS_MIN = m] :
        m \in 1..MaxConsensusMin}

InitDecide ==
    /\ cfg \in DecideConfigs
    /\ fileExists = FALSE /\ csv = <<>> /\ totalHits = 0
    /\ runs = 1 /\ pc = "loop" /\ inWindow = TRUE /\ i = 1
    /\ stage = "Fetching" /\ trail = <<"Fetching">> /\ hits = 0
    /\ dfi = EmptyFrame /\ rg = FALSE /\ f = FALSE /\ b = FALSE
    /\ daily = NoDaily /\ entry = 0 /\ sd = 0 /\ sh = 0 /\ row = NoRow
    /\ dailyCalls = 0 /\ appended = 0
    /\ evaluated = <<AllTickers[1]>> /\ errs = <<>> /\ lost = FALSE

NextDecide ==
    \/ FetchOK(AllScenarios)
    \/ FetchRaises
    \/ RegimeCheck
    \/ SignalEval(AllDaily)
    \/ SigFlowRaises
    \/ SigBoyhRaises
    \/ ConsensusCheck
    \/ Sizing
    \/ LogRowOK
    \/ LogRowOpenFails
    \/ LogRowWriteFails
    \/ NextTicker

SpecDecide == InitDecide /\ [][NextDecide]_vars

(***************************************************************************)
(* SpecSizer: the risk sizer and the assembly of the record (lines 92-104) *)
(* applied to an entry price and a stop distance drawn from bounded sets,  *)
(* the instrument standing at the Sizing stage with both detectors true.   *)
(* A positive stop distance is paired with the entries for which the       *)
(* regime band lets it through: stop_dist = ATR * ATR_MULT with            *)
(* 0.005 <= ATR / entry <= 0.08.  NaN and stop distances <= 0 are the      *)
(* inputs that line 74 and line 93 guard against.                          *)
(***************************************************************************)
SizerStops ==
    {NaN, 0 - 1500, 0 - 1, 0, 1, 3, 4, 5, 6, 9, 10, 11, 999, 1000, 1001, 1100,
     3000, 14285, 16666, 33333, 150000}

SizerEntries == {105, 391, 100000, 200004, 400000, 4000000}

SizerEquities == {0, 100 * Scale, 10000 * Scale}

SizerConfigs ==
    {[DefaultConfig EXCEPT !.TICKERS = <<AllTickers[1]>>, !.EQUITY = e] :
        e \in SizerEquities}

PassesRegimeBand(entry_, sd_, c) ==
    /\ c.ATR_MULT * entry_ <= 2000 * sd_
    /\ 125 * sd_ <= c.ATR_MULT * entry_

InitSizer ==
    /\ cfg \in SizerConfigs
    /\ fileExists = FALSE /\ csv = <<>> /\ totalHits = 0
    /\ runs = 1 /\ pc = "loop" /\ inWindow = TRUE /\ i = 1
    /\ stage = "Sizing"
    /\ trail = <<"Fetching", "RegimeCheck", "SignalEval", "ConsensusCheck", "Sizing">>
    /\ hits = 0
    /\ dfi = EmptyFrame /\ rg = TRUE /\ f = TRUE /\ b = TRUE
    /\ daily = NoDaily /\ dailyCalls = 1 /\ appended = 0
    /\ entry \in SizerEntries
    /\ sd \in SizerStops
    /\ IF IsNaN(sd) \/ sd <= 0 THEN TRUE ELSE PassesRegimeBand(entry, sd, cfg)
    /\ sh = 0 /\ row = NoRow
    /\ evaluated = <<AllTickers[1]>> /\ errs = <<>> /\ lost = FALSE

NextSizer ==
    \/ Sizing
    \/ LogRowOK
    \/ LogRowOpenFails
    \/ LogRowWriteFails
    \/ NextTicker

SpecSizer == InitSizer /\ [][NextSizer]_vars

(***************************************************************************)
(* The steps of a started invocation.                                      *)
(***************************************************************************)
LoopStep ==
    \/ FetchOK(MainScenarios)
    \/ FetchRaises
    \/ RegimeCheck
    \/ SignalEval(MainDaily)
    \/ SigFlowRaises
    \/ SigBoyhRaises
    \/ ConsensusCheck
    \/ Sizing
    \/ LogRowOK
    \/ LogRowOpenFails
    \/ LogRowWriteFails
    \/ NextTicker

(***************************************************************************)
(* Claims.                                                                 *)
(***************************************************************************)
Range(s) == {s[k] : k \in 1..Len(s)}

StageOrder ==
    <<"Fetching", "RegimeCheck", "SignalEval", "ConsensusCheck", "Sizing", "Emit">>

DataLines == {k \in 1..Len(csv) : csv[k].kind = "row"}

\* What is left of the scan: the stages left for the current instrument and
\* every stage of the instruments after it.
StagesLeft ==
    LET here == CASE stage = "Fetching" -> 7
                  [] stage = "RegimeCheck" -> 6
                  [] stage = "SignalEval" -> 5
                  [] stage = "ConsensusCheck" -> 4
                  [] stage = "Sizing" -> 3
                  [] stage = "Emit" -> 2
                  [] stage \in Terminal -> 1
                  [] OTHER -> 0
    IN  IF pc = "loop" THEN 7 * (Len(cfg.TICKERS) - i) + here ELSE 0

\* C1: in a run of main() inside the scan window a failure while processing
\* one instrument never aborts the scan: at every moment of the loop the
\* instruments evaluated are exactly the first i of TICKERS, each once and in
\* order, and at the end they are all of TICKERS; the run terminates: in the
\* loop a step is always possible and every step leaves strictly less to do.
C1_ScanNeverAborts ==
    /\ [](pc = "loop" => evaluated = SubSeq(cfg.TICKERS, 1, i))
    /\ []((pc = "done" /\ inWindow) => evaluated = cfg.TICKERS)
    /\ [](pc = "loop" => ENABLED LoopStep)
    /\ [][pc = "loop" => StagesLeft' < StagesLeft]_vars

\* A finished run whose first instrument failed and whose later ones were
\* all evaluated.
C1_Witness ==
    /\ pc = "done" /\ inWindow
    /\ Len(errs) >= 1 /\ errs[1] = cfg.TICKERS[1]
    /\ Len(cfg.TICKERS) >= 2
    /\ evaluated = cfg.TICKERS

\* C2: a failure of log_row on an accepted decision propagates as a hard
\* failure of the cycle: no cycle finishes normally after an accepted
\* decision was lost.
C2_SinkFailurePropagates == (pc = "done") => ~lost

\* C5: the Decision Log is one header line followed by the data rows, and
\* the number of data rows is the sum of the accepted counts of all
\* invocations.
C5_LogIsHeaderPlusAccepted ==
    \/ csv = <<>>
    \/ /\ csv[1] = HeaderLine
       /\ DataLines = 2..Len(csv)
       /\ Len(csv) - 1 = totalHits

\* C9: the instrument goes through Fetching, RegimeCheck, SignalEval,
\* ConsensusCheck, Sizing, Emit in that order and ends in one terminal
\* outcome; a record is appended only after regime, consensus and sizing
\* passed; after an early exit no later stage runs, the daily supplier is not
\* called when the regime check fails, and at most one record is appended per
\* instrument per cycle.
C9_StageOrder ==
    pc = "loop" =>
        /\ stage = Last(trail)
        /\ \E m \in 1..Len(StageOrder) :
              /\ m <= Len(trail)
              /\ SubSeq(trail, 1, m) = SubSeq(StageOrder, 1, m)
              /\ \/ Len(trail) = m
                 \/ /\ Len(trail) = m + 1
                    /\ trail[m + 1] \in Terminal
                    /\ trail[m + 1] = "Emitted" => m = Len(StageOrder)
                    /\ trail[m + 1] = "NoDecision" =>
                           trail[m] \in {"Fetching", "RegimeCheck", "ConsensusCheck",
                                         "Sizing"}
        /\ appended <= 1
        /\ appended = 1 <=> stage = "Emitted"
        /\ appended = 1 =>
              /\ rg
              /\ BoolInt(f) + BoolInt(b) >= cfg.CONSENSUS_MIN
              /\ sh >= 1
              /\ Last(csv) = RowLine(row)
        /\ dailyCalls <= 1
        /\ dailyCalls = 1 => rg /\ "SignalEval" \in Range(trail)
        /\ ("RegimeCheck" \in Range(trail) /\ stage # "RegimeCheck" /\ ~rg) =>
              /\ stage = "NoDecision"
              /\ dailyCalls = 0
        /\ \A j, k \in DataLines :
              (csv[j].rec.ticker = csv[k].rec.ticker
               /\ csv[j].rec.timestamp = csv[k].rec.timestamp) => j = k

\* An instrument whose record was appended after all six stages, in a log
\* that already holds a record of an earlier instrument.
C9_Witness ==
    /\ pc = "loop" /\ stage = "Emitted"
    /\ trail = StageOrder \o <<"Emitted">>
    /\ Cardinality(DataLines) >= 2

Past(st) == st \in Range(trail) /\ stage # st

LatestClose == Last(dfi.rows).Close

\* C4: past the consensus gate the instrument proceeds to sizing iff the
\* number of detectors that returned true is at least CONSENSUS_MIN; no
\* record is logged with fewer, and the logged signals carry each detector's
\* own result.
C4_ConsensusGate ==
    (pc = "loop" /\ Past("ConsensusCheck")) =>
        /\ f = sig_flow(dfi, cfg)
        /\ b = sig_boyh(daily, dfi)
        /\ "Sizing" \in Range(trail) <=> BoolInt(f) + BoolInt(b) >= cfg.CONSENSUS_MIN
        /\ \A k \in DataLines :
              /\ csv[k].rec.signals.flow + csv[k].rec.signals.boyh >= cfg.CONSENSUS_MIN
              /\ csv[k].rec.signals.flow = (IF f THEN 1 ELSE 0)
              /\ csv[k].rec.signals.boyh = (IF b THEN 1 ELSE 0)

\* A record logged under CONSENSUS_MIN = 1 on the breakout detector alone.
C4_Witness ==
    /\ pc = "loop" /\ stage = "Emitted"
    /\ cfg.CONSENSUS_MIN = 1
    /\ ~f /\ b
    /\ Last(csv).rec.signals = [flow |-> 0, boyh |-> 1]

\* regime_ok's three conditions, the band closed or half open at 0.08.
RegimeConditions(closed) ==
    LET n == Len(dfi.rows)
        close == [k \in 1..n |-> dfi.rows[k].Close]
        a == atr(dfi.rows, AtrWindow, n)
    IN  /\ n >= 200
        /\ close[n] > ema(close, 200, n)
        /\ 5 * close[n] <= 1000 * a
        /\ IF closed THEN 1000 * a <= 80 * close[n] ELSE 1000 * a < 80 * close[n]

ConstantPrice ==
    \A k \in 1..Len(dfi.rows) :
        /\ dfi.rows[k].High = dfi.rows[1].Close
        /\ dfi.rows[k].Low = dfi.rows[1].Close
        /\ dfi.rows[k].Close = dfi.rows[1].Close

\* C6 as amended: regime_ok is true exactly when the frame has at least 200
\* bars, the latest close is above the latest EMA-200 and ATR(14) over the
\* latest close lies in the closed band [0.005, 0.08]; it is false below 200
\* bars and on a constant price.
C6_RegimeClosedBand ==
    (pc = "loop" /\ Past("RegimeCheck")) =>
        /\ rg <=> RegimeConditions(TRUE)
        /\ Len(dfi.rows) < 200 => ~rg
        /\ ConstantPrice => ~rg

\* C6 as claimed: the same with the band half open, 0.08 itself rejected.
C6_RegimeHalfOpenBand ==
    (pc = "loop" /\ Past("RegimeCheck")) =>
        /\ rg <=> RegimeConditions(FALSE)
        /\ Len(dfi.rows) < 200 => ~rg
        /\ ConstantPrice => ~rg

\* The regime check passed with ATR(14) at exactly 0.08 of the latest close.
C6_Witness ==
    /\ pc = "loop" /\ Past("RegimeCheck")
    /\ rg
    /\ 1000 * atr(dfi.rows, AtrWindow, Len(dfi.rows)) = 80 * LatestClose

DailyMissing == daily.kind = "none" \/ Len(daily.highs) < 2

\* C7: sig_boyh never raises: whenever the daily supplier returns nothing, an
\* empty frame or fewer than 2 bars, or fails, sig_boyh is false and the
\* instrument goes on to the consensus gate with boyh = 0.
C7_BoyhNeverRaises ==
    (pc = "loop" /\ dailyCalls = 1 /\ (daily.kind = "error" \/ DailyMissing)) =>
        /\ ~b
        /\ "ConsensusCheck" \in Range(trail)

VwapUnavailable ==
    /\ "Volume" \in dfi.cols
    /\ Len(dfi.rows) > 0
    /\ IsNaN(vwap(dfi.rows, Len(dfi.rows)))

WindowNotFull ==
    /\ Len(dfi.rows) > 0
    /\ Len(dfi.rows) < VolWindow \/ Len(dfi.rows) < AtrWindow

Decided == stage \in {"Emit", "Emitted"} \/ appended > 0

\* C8 as amended: an undefined latest VWAP raises no fault and makes the flow
\* detector false, so no record is emitted when CONSENSUS_MIN >= 2 (under
\* CONSENSUS_MIN = 1 the breakout detector alone can carry a record); a
\* volume-mean or ATR window that is not full ends the instrument at the
\* regime check, for every configuration.
C8_UnavailableValue ==
    pc = "loop" =>
        /\ (VwapUnavailable /\ Past("SignalEval")) =>
              /\ ~f
              /\ stage = "Skipped" => (daily.kind = "error" \/ "Emit" \in Range(trail))
              /\ cfg.CONSENSUS_MIN >= 2 => ~Decided /\ "Sizing" \notin Range(trail)
        /\ (WindowNotFull /\ Past("RegimeCheck")) =>
              /\ stage = "NoDecision"
              /\ trail = <<"Fetching", "RegimeCheck", "NoDecision">>

\* C8 as claimed: for every configuration, CONSENSUS_MIN = 1 included, no
\* record is emitted for an instrument whose latest VWAP is undefined or whose
\* volume-mean or ATR window is not full.
C8_UnavailableMeansNoDecision ==
    (pc = "loop" /\ (VwapUnavailable \/ WindowNotFull)) => ~Decided

\* An undefined VWAP, the breakout detector true, CONSENSUS_MIN = 2: the
\* instrument ends without a decision at the consensus gate.
C8_Witness ==
    /\ pc = "loop" /\ stage = "NoDecision"
    /\ VwapUnavailable
    /\ cfg.CONSENSUS_MIN = 2
    /\ b /\ ~f
    /\ Last(SubSeq(trail, 1, Len(trail) - 1)) = "ConsensusCheck"

\* C3 as amended: a stop distance that is NaN or <= 0, or a computed size
\* <= 0 (equity 0 included), yields no decision; every logged record has
\* shares >= 1 and was sized from a stop distance > 0, and its stop_dist
\* field, that distance rounded to 4 decimals, is >= 0.
C3_SizingFailureSuppresses ==
    (pc = "loop" /\ Past("Sizing")) =>
        /\ (IsNaN(sd) \/ sd <= 0 \/ Budget(cfg) < Max2(MinIncrement, sd)) =>
              /\ stage = "NoDecision"
              /\ row = NoRow
              /\ csv = <<>>
        /\ \A k \in DataLines :
              /\ csv[k].rec.shares >= 1
              /\ ~IsNaN(sd) /\ sd > 0
              /\ csv[k].rec.stop_dist >= 0
              /\ csv[k].rec.stop_dist = Round4(sd)

\* C3 as claimed: every logged record has shares >= 1 and a stop_dist > 0.
C3_LoggedStopDistPositive ==
    \A k \in DataLines :
        /\ csv[k].rec.shares >= 1
        /\ csv[k].rec.stop_dist > 0

\* A stop distance of 0 with a positive budget: no decision, nothing logged.
C3_Witness ==
    /\ pc = "loop" /\ stage = "NoDecision" /\ Past("Sizing")
    /\ sd = 0
    /\ Budget(cfg) > 0
    /\ row = NoRow /\ csv = <<>>

RowBuilt == pc = "loop" /\ stage \in {"Emit", "Emitted"}

\* C10 as amended: the shares of an emitted record are
\* floor(EQUITY * RISK_PER_TRADE / max(0.01, sd)) for the unrounded stop
\* distance sd, so shares * sd <= EQUITY * RISK_PER_TRADE, also for sd below
\* 0.01; the record's stop is never above its entry, and strictly below it
\* when sd exceeds 0.0001.
C10_RiskWithinBudget ==
    RowBuilt =>
        /\ sd > 0
        /\ row.shares = Budget(cfg) \div Max2(MinIncrement, sd)
        /\ row.shares * sd <= Budget(cfg)
        /\ row.stop <= row.entry
        /\ sd > 10 => row.stop < row.entry
        /\ row.risk = Round2(Budget(cfg))

\* C10 as claimed, on the fields of the record: shares * stop_dist <= risk$
\* and stop strictly below entry.
C10_RecordWithinBudget ==
    RowBuilt =>
        /\ row.shares = Budget(cfg) \div Max2(MinIncrement, sd)
        /\ row.shares * row.stop_dist <= row.risk
        /\ row.stop < row.entry

\* A record sized from a stop distance below the minimum increment 0.01.
C10_Witness ==
    /\ RowBuilt
    /\ sd > 10 /\ sd < MinIncrement
    /\ row.shares * MinIncrement = Budget(cfg)
    /\ row.stop < row.entry

====
